---------------------------- MODULE Spec2Model ----------------------------
(***************************************************************************)
(* A model of the SMS dispatch code of ArenaDev3550/sms-sender.            *)
(*                                                                         *)
(*   - sms_sender.py : class SMSSender, the rate-limited sender (sliding   *)
(*     window of send timestamps, status store, counters), driven by any   *)
(*     number of threads calling send_single_sms.  Specifications Spec     *)
(*     (concurrent callers, every configuration) and SpecA (the scripted   *)
(*     scenario of three sequential calls).                                *)
(*   - smsApi.py : the Flask handlers, their module-level thread pool and  *)
(*     status dictionary.  Specifications SpecApi and FairSpecApi (the     *)
(*     /send-sms requests), SpecBulk and FairSpecBulk (/send-bulk-sms),    *)
(*     SpecNorm (its validation) and SpecSurface (both handlers).          *)
(*   - SpecPrune : clear_old_status on any status store.                   *)
(*                                                                         *)
(* Time is the integer clock `now` (seconds); time.time() and              *)
(* datetime.now() both read it.                                            *)
(***************************************************************************)
EXTENDS Integers, Sequences, FiniteSets, TLC

(***************************************************************************)
(* Bounds of the model.                                                    *)
(***************************************************************************)
NumJobs == 2        \* threads calling send_single_sms in Spec
NumReqs == 3        \* HTTP requests in SpecApi
PoolSize == 2       \* workers of thread_pool in SpecApi (smsApi.py line 18 sets 10)
ScenarioCalls == 3  \* calls the scripted caller of SpecA makes
ScenarioHorizon == 61  \* the clock stops here in SpecA
MaxTime == 2        \* the clock stops here in Spec
MaxLimit == 1       \* rate_limit ranges over -1 .. MaxLimit in Spec
MaxWindow == 1      \* rate_window ranges over 0 .. MaxWindow in Spec
MaxWait == 1        \* largest positive max_wait_time a caller passes
MaxAge == 1         \* largest max_age_hours a caller passes to clear_old_status
MaxBatch == 3       \* longest recipients list of a bulk request
MaxRequested == 3   \* largest max_workers a bulk request asks for
NumObservers == 1   \* threads calling get_stats / get_rate_limit_status in SpecStats
BulkCap == 2        \* the cap on a bulk call's workers (smsApi.py line 178 sets 10)

\* timedelta(hours=max_age_hours), in seconds of the clock
SecondsPerHour == 3600

\* Python's None, for an absent sms_id / max_wait_time / wait_time.
NoneVal == -1

Jobs == 1..NumJobs
Reqs == 1..NumReqs
\* The /send-bulk-sms requests.  A bulk call has its own executor and locals
\* and writes no shared state, so calls do not act on one another: one is
\* modelled.
Bulks == {1}
Observers == 1..NumObservers
Limits == (-1)..MaxLimit
Windows == 0..MaxWindow
\* max_wait_time: 0 (no wait), None (wait without limit), or a positive bound
WaitChoices == {NoneVal} \cup (0..MaxWait)

VARIABLES
    now,             \* the clock
    rate_limit,      \* self.rate_limit
    rate_window,     \* self.rate_window
    sms_timestamps,  \* self.sms_timestamps, a deque: sequence, oldest first
    sms_status,      \* self.sms_status, a dict: function on the stored ids
    stats,           \* self.stats (the three counters)
    pc,              \* per calling thread: where it is in send_single_sms
    arg,             \* per calling thread: the call's arguments
    loc,             \* per calling thread: its local variables
    result,          \* per calling thread: what the call returned (or raised)
    calls,           \* history: transport invocations made by the thread
    appended,        \* history: timestamps the thread appended to the window
    returned,        \* the scripted caller's log of the calls that returned
    \* smsApi.py
    api_status,      \* the module-level sms_status dict
    pool_queue,      \* thread_pool's work queue, oldest first
    req,             \* per request: its JSON body
    hpc,             \* per request: where its handler thread is
    resp,            \* per request: the HTTP response
    jst,             \* per request: the state of its send_single_sms call
    api_result,      \* per request: the result dict of that call
    \* smsApi.py, send_bulk_sms
    bpc,             \* per bulk call: where its handler thread is
    breq,            \* per bulk call: its JSON body
    processed_recipients,  \* per bulk call: the normalized recipients
    futures,         \* per bulk call, per entry: the state of its future
    future_result,   \* per bulk call, per entry: what send_single_sms returned
    results,         \* per bulk call: the futures collected so far, in order
    bresp,           \* per bulk call: the HTTP response
    \* sms_sender.py, get_stats and get_rate_limit_status
    lock,            \* self.lock: Unlocked, or the thread that holds it across steps
    opc,             \* per observing thread: where it is in get_stats / get_rate_limit_status
    oview            \* per observing thread: its locals and the dict it returns

config == <<rate_limit, rate_window>>
engine_vars == <<now, config, sms_timestamps, sms_status, stats,
                 pc, arg, loc, result, calls, appended, returned>>
api_vars == <<api_status, pool_queue, req, hpc, resp, jst, api_result>>
bulk_vars == <<bpc, breq, processed_recipients, futures, future_result, results, bresp>>
obs_vars == <<lock, opc, oview>>
vars == <<engine_vars, api_vars, bulk_vars, obs_vars>>

(***************************************************************************)
(* Helpers.                                                                *)
(***************************************************************************)
Max(a, b) == IF a >= b THEN a ELSE b
Min(a, b) == IF a <= b THEN a ELSE b

\* Python truthiness of an optional number / id: None and 0 are falsy.
Truthy(x) == x # NoneVal /\ x # 0

NoResult == [status |-> "none", detail |-> "none", wait_time |-> NoneVal,
             timestamp |-> NoneVal, current_count |-> NoneVal]

NoArg == [sms_id |-> NoneVal, respect_rate_limit |-> TRUE, max_wait_time |-> NoneVal]

NoLoc == [current_time |-> 0, can_send |-> FALSE, wait_time |-> 0,
          start_wait |-> 0, wake |-> 0, err |-> "none"]

\* d[k] = v on a dict
Put(d, k, v) == [i \in (DOMAIN d) \cup {k} |-> IF i = k THEN v ELSE d[i]]

\* Mutant of Evict: nothing is removed from the window.
EvictKeepsAll(ts, cutoff) == ts

\* while self.sms_timestamps and self.sms_timestamps[0] < cutoff_time: popleft()
RECURSIVE Evict(_, _)
Evict(ts, cutoff) ==
    IF ts # <<>> /\ Head(ts) < cutoff THEN Evict(Tail(ts), cutoff) ELSE ts

\* Mutant of CheckOutcome: the comparison with the limit is off by one.
CheckOutcomeOffByOne(ts) ==
    IF Len(ts) <= rate_limit THEN "admit"
    ELSE IF ts = <<>> THEN "IndexError"
    ELSE "refuse"

\* The outcome of the locked part of _check_rate_limit on window ts (already
\* evicted) read at current_time: "admit", "refuse" or "IndexError"
\* (self.sms_timestamps[0] on an empty deque).
CheckOutcome(ts) ==
    IF Len(ts) < rate_limit THEN "admit"
    ELSE IF ts = <<>> THEN "IndexError"
    ELSE "refuse"

\* wait_time = oldest_timestamp + self.rate_window - current_time; max(0, wait_time)
WaitTime(ts, current_time) == Max(0, Head(ts) + rate_window - current_time)

(***************************************************************************)
(* Init: the state after SMSSender.__init__(rate_limit, rate_window).      *)
(* The constructor stores whatever it is given.                            *)
(***************************************************************************)
EngineInit(limit, window) ==
    /\ now = 0
    /\ rate_limit = limit
    /\ rate_window = window
    /\ sms_timestamps = <<>>
    /\ sms_status = [i \in {} |-> NoResult]
    /\ stats = [total_sent |-> 0, total_errors |-> 0, rate_limited |-> 0]
    /\ pc = [j \in Jobs |-> "idle"]
    /\ arg = [j \in Jobs |-> NoArg]
    /\ loc = [j \in Jobs |-> NoLoc]
    /\ result = [j \in Jobs |-> NoResult]
    /\ calls = [j \in Jobs |-> 0]
    /\ appended = [j \in Jobs |-> 0]
    /\ returned = <<>>

\* smsApi.py at module load: an empty status dict, an idle pool.
NoReq == [to |-> "", message |-> "", async |-> FALSE]
NoResp == [code |-> 0, status |-> "none"]

ApiInit ==
    /\ api_status = [i \in {} |-> NoResult]
    /\ pool_queue = <<>>
    /\ req = [r \in Reqs |-> NoReq]
    /\ hpc = [r \in Reqs |-> "idle"]
    /\ resp = [r \in Reqs |-> NoResp]
    /\ jst = [r \in Reqs |-> "none"]
    /\ api_result = [r \in Reqs |-> NoResult]

\* No /send-bulk-sms request has arrived.
NoBulkReq == [recipients |-> [type |-> "none", items |-> <<>>],
              message |-> "", max_workers |-> 0]
NoBulkResp == [code |-> 0, error |-> "none", index |-> 0,
               total |-> 0, sent |-> 0, errors |-> 0]

BulkInit ==
    /\ bpc = [b \in Bulks |-> "idle"]
    /\ breq = [b \in Bulks |-> NoBulkReq]
    /\ processed_recipients = [b \in Bulks |-> <<>>]
    /\ futures = [b \in Bulks |-> <<>>]
    /\ future_result = [b \in Bulks |-> <<>>]
    /\ results = [b \in Bulks |-> <<>>]
    /\ bresp = [b \in Bulks |-> NoBulkResp]

\* threading.Lock() not held by anyone
Unlocked == 0

\* The locals of get_rate_limit_status / get_stats and the dict returned.
NoView == [op |-> "none", current_time |-> 0, can_send |-> FALSE, wait_time |-> 0,
           current_count |-> 0, remaining |-> 0, reset_time |-> NoneVal,
           total_requests |-> 0]

\* The lock is free and no thread is in get_stats or get_rate_limit_status.
ObsInit ==
    /\ lock = Unlocked
    /\ opc = [o \in Observers |-> "idle"]
    /\ oview = [o \in Observers |-> NoView]

Init ==
    /\ \E limit \in Limits, window \in Windows : EngineInit(limit, window)
    /\ ApiInit
    /\ BulkInit
    /\ ObsInit

(***************************************************************************)
(* send_single_sms, one action per step between two accesses to shared     *)
(* state.  A "with self.lock" block is one step, which needs the lock      *)
(* free; only get_stats keeps the lock over several steps.                 *)
(***************************************************************************)
\* A thread calls send_single_sms(number, message, sms_id, respect, max_wait).
\* With respect_rate_limit it enters _check_rate_limit and reads the clock
\* (line 47); without, it goes straight to the transport.
Call(j, has_id, respect, max_wait) ==
    /\ pc[j] = "idle"
    /\ arg' = [arg EXCEPT ![j] = [sms_id |-> IF has_id THEN j ELSE NoneVal,
                                  respect_rate_limit |-> respect,
                                  max_wait_time |-> max_wait]]
    /\ loc' = [loc EXCEPT ![j].current_time = now]
    /\ pc' = [pc EXCEPT ![j] = IF respect THEN "check" ELSE "send"]
    /\ UNCHANGED <<now, config, returned, api_vars, bulk_vars, obs_vars, sms_timestamps, sms_status,
                   stats, result, calls, appended>>

\* _check_rate_limit, the part under self.lock (lines 50-62): evict, then
\* admit (-> admit_pc), refuse with a wait time (-> refuse_pc), or fail with
\* IndexError.  Both call sites (lines 113 and 82) are outside any try block,
\* so the IndexError leaves send_single_sms.
LockedCheck(j, admit_pc, refuse_pc) ==
    LET ts == Evict(sms_timestamps, loc[j].current_time - rate_window)
        out == CheckOutcome(ts)
    IN /\ lock = Unlocked
       /\ sms_timestamps' = ts
       /\ CASE out = "admit" ->
                 /\ loc' = [loc EXCEPT ![j].can_send = TRUE, ![j].wait_time = 0]
                 /\ pc' = [pc EXCEPT ![j] = admit_pc]
                 /\ UNCHANGED result
            [] out = "refuse" ->
                 /\ loc' = [loc EXCEPT ![j].can_send = FALSE,
                                       ![j].wait_time = WaitTime(ts, loc[j].current_time)]
                 /\ pc' = [pc EXCEPT ![j] = refuse_pc]
                 /\ UNCHANGED result
            [] out = "IndexError" ->
                 /\ pc' = [pc EXCEPT ![j] = "raised"]
                 /\ result' = [result EXCEPT ![j] = [NoResult EXCEPT !.status = "IndexError"]]
                 /\ loc' = [loc EXCEPT ![j] = NoLoc]
       /\ UNCHANGED <<now, config, returned, api_vars, bulk_vars, obs_vars, sms_status, stats, arg, calls, appended>>

\* send_single_sms line 113 and the branch at lines 115-116, 135.
CheckRateLimit(j) ==
    /\ pc[j] = "check"
    /\ LockedCheck(j, "send",
                   IF arg[j].max_wait_time = 0 THEN "nowait_stat" ELSE "wait_start")

\* Mutant of RateLimitedStat: the refusal is counted as an error.
RateLimitedCountedAsError(j, from_pc, to_pc) ==
    /\ pc[j] = from_pc
    /\ lock = Unlocked
    /\ stats' = [stats EXCEPT !.total_errors = @ + 1]
    /\ pc' = [pc EXCEPT ![j] = to_pc]
    /\ UNCHANGED <<now, config, returned, api_vars, bulk_vars, obs_vars, sms_timestamps, sms_status,
                   arg, loc, result, calls, appended>>

\* with self.lock: self.stats['rate_limited'] += 1   (lines 118-119 / 137-138)
RateLimitedStat(j, from_pc, to_pc) ==
    /\ pc[j] = from_pc
    /\ lock = Unlocked
    /\ stats' = [stats EXCEPT !.rate_limited = @ + 1]
    /\ pc' = [pc EXCEPT ![j] = to_pc]
    /\ UNCHANGED <<now, config, returned, api_vars, bulk_vars, obs_vars, sms_timestamps, sms_status,
                   arg, loc, result, calls, appended>>

NoWaitStat(j) == RateLimitedStat(j, "nowait_stat", "nowait_build")

\* Mutant of Build: a call with an sms_id already records a provisional
\* status when its result is built, before the write of the final one.
BuildStoresProvisional(j, from_pc, r) ==
    /\ pc[j] = from_pc
    /\ result' = [result EXCEPT ![j] = r]
    /\ pc' = [pc EXCEPT ![j] = IF Truthy(arg[j].sms_id) THEN "store" ELSE "done"]
    /\ loc' = [loc EXCEPT ![j] = NoLoc]
    /\ sms_status' = IF Truthy(arg[j].sms_id)
                      THEN Put(sms_status, arg[j].sms_id, [r EXCEPT !.detail = "pending"])
                      ELSE sms_status
    /\ UNCHANGED <<now, config, returned, api_vars, bulk_vars, obs_vars, sms_timestamps,
                   stats, arg, calls, appended>>

\* A result dict is built (reading the clock for "timestamp"); without an
\* sms_id it is returned at once, with one it goes to the status store first.
\* The other locals are not read again.
Build(j, from_pc, r) ==
    /\ pc[j] = from_pc
    /\ result' = [result EXCEPT ![j] = r]
    /\ pc' = [pc EXCEPT ![j] = IF Truthy(arg[j].sms_id) THEN "store" ELSE "done"]
    /\ loc' = [loc EXCEPT ![j] = NoLoc]
    /\ UNCHANGED <<now, config, returned, api_vars, bulk_vars, obs_vars, sms_timestamps, sms_status,
                   stats, arg, calls, appended>>

\* lines 121-127: the no-wait error_result carries wait_time
NoWaitBuild(j) ==
    Build(j, "nowait_build",
          [status |-> "rate_limited", detail |-> "rate limit reached",
           wait_time |-> loc[j].wait_time, timestamp |-> now,
           current_count |-> NoneVal])

\* with self.lock: self.sms_status[sms_id] = result; return result
\* (lines 129-133, 147-151, 190-196, 208-211, 223-226)
StoreStatus(j) ==
    /\ pc[j] = "store"
    /\ lock = Unlocked
    /\ sms_status' = Put(sms_status, arg[j].sms_id, result[j])
    /\ pc' = [pc EXCEPT ![j] = "done"]
    /\ UNCHANGED <<now, config, returned, api_vars, bulk_vars, obs_vars, sms_timestamps, stats,
                   arg, loc, result, calls, appended>>

(***************************************************************************)
(* wait_for_rate_limit(max_wait_time), lines 79-95.                        *)
(***************************************************************************)
\* line 79 start_wait = time.time(); line 82 enters _check_rate_limit (line 47)
WaitStart(j) ==
    /\ pc[j] = "wait_start"
    /\ loc' = [loc EXCEPT ![j].start_wait = now, ![j].current_time = now]
    /\ pc' = [pc EXCEPT ![j] = "wait_check"]
    /\ UNCHANGED <<now, config, returned, api_vars, bulk_vars, obs_vars, sms_timestamps, sms_status,
                   stats, arg, result, calls, appended>>

\* line 82, the locked part; lines 84-85 return True -> the transport
WaitCheck(j) ==
    /\ pc[j] = "wait_check"
    /\ LockedCheck(j, "send", "wait_decide")

\* lines 88-95: give up when max_wait_time is truthy and has elapsed,
\* otherwise time.sleep(min(wait_time, 1.0))
WaitDecide(j) ==
    /\ pc[j] = "wait_decide"
    /\ IF Truthy(arg[j].max_wait_time)
          /\ now - loc[j].start_wait >= arg[j].max_wait_time
       THEN /\ pc' = [pc EXCEPT ![j] = "maxwait_stat"]
            /\ UNCHANGED loc
       ELSE /\ pc' = [pc EXCEPT ![j] = "sleeping"]
            /\ loc' = [loc EXCEPT ![j].wake = now + Min(loc[j].wait_time, 1)]
    /\ UNCHANGED <<now, config, returned, api_vars, bulk_vars, obs_vars, sms_timestamps, sms_status,
                   stats, arg, result, calls, appended>>

\* time.sleep returns; the loop calls _check_rate_limit again (line 82 -> 47)
WakeUp(j) ==
    /\ pc[j] = "sleeping"
    /\ now >= loc[j].wake
    /\ loc' = [loc EXCEPT ![j].current_time = now]
    /\ pc' = [pc EXCEPT ![j] = "wait_check"]
    /\ UNCHANGED <<now, config, returned, api_vars, bulk_vars, obs_vars, sms_timestamps, sms_status,
                   stats, arg, result, calls, appended>>

MaxWaitStat(j) == RateLimitedStat(j, "maxwait_stat", "maxwait_build")

\* lines 140-145: no wait_time key
MaxWaitBuild(j) ==
    Build(j, "maxwait_build",
          [status |-> "rate_limited", detail |-> "max wait exceeded",
           wait_time |-> NoneVal, timestamp |-> now, current_count |-> NoneVal])

(***************************************************************************)
(* The transport call and what follows it, lines 154-226.                  *)
(***************************************************************************)
TransportResults == {"ok", "timeout", "fail"}

\* Mutant of Transport: a failed or timed-out send is recorded in the rate
\* window too.
TransportRecordsAnyOutcome(j, res) ==
    /\ pc[j] = "send"
    /\ calls' = [calls EXCEPT ![j] = @ + 1]
    /\ loc' = [loc EXCEPT ![j].err = IF res = "ok" THEN "none" ELSE res]
    /\ sms_timestamps' = IF res # "ok" /\ arg[j].respect_rate_limit
                          THEN Append(sms_timestamps, now) ELSE sms_timestamps
    /\ pc' = [pc EXCEPT ![j] =
                IF res = "ok"
                THEN (IF arg[j].respect_rate_limit THEN "add_ts" ELSE "sent_stat")
                ELSE "err_stat"]
    /\ UNCHANGED <<now, config, returned, api_vars, bulk_vars, obs_vars, sms_status,
                   stats, arg, result, appended>>

\* subprocess.run(cmd, check=True, timeout=30): returns, raises
\* TimeoutExpired, or raises something else (CalledProcessError, OSError).
Transport(j, res) ==
    /\ pc[j] = "send"
    /\ calls' = [calls EXCEPT ![j] = @ + 1]
    /\ loc' = [loc EXCEPT ![j].err = IF res = "ok" THEN "none" ELSE res]
    /\ pc' = [pc EXCEPT ![j] =
                IF res = "ok"
                THEN (IF arg[j].respect_rate_limit THEN "add_ts" ELSE "sent_stat")
                ELSE "err_stat"]
    /\ UNCHANGED <<now, config, returned, api_vars, bulk_vars, obs_vars, sms_timestamps, sms_status,
                   stats, arg, result, appended>>

\* _add_timestamp: with self.lock: self.sms_timestamps.append(time.time())
AddTimestamp(j) ==
    /\ pc[j] = "add_ts"
    /\ lock = Unlocked
    /\ sms_timestamps' = Append(sms_timestamps, now)
    /\ appended' = [appended EXCEPT ![j] = @ + 1]
    /\ pc' = [pc EXCEPT ![j] = "sent_stat"]
    /\ UNCHANGED <<now, config, returned, api_vars, bulk_vars, obs_vars, sms_status, stats,
                   arg, loc, result, calls>>

\* Mutant of SentStat: the update of total_sent is lost.
SentStatLostUpdate(j) ==
    /\ pc[j] = "sent_stat"
    /\ lock = Unlocked
    /\ pc' = [pc EXCEPT ![j] = "sent_build"]
    /\ UNCHANGED <<now, config, returned, api_vars, bulk_vars, obs_vars, sms_timestamps, sms_status,
                   stats, arg, loc, result, calls, appended>>

\* with self.lock: self.stats['total_sent'] += 1
SentStat(j) ==
    /\ pc[j] = "sent_stat"
    /\ lock = Unlocked
    /\ stats' = [stats EXCEPT !.total_sent = @ + 1]
    /\ pc' = [pc EXCEPT ![j] = "sent_build"]
    /\ UNCHANGED <<now, config, returned, api_vars, bulk_vars, obs_vars, sms_timestamps, sms_status,
                   arg, loc, result, calls, appended>>

\* lines 177-188: rate_limit_info.current_count is len(self.sms_timestamps),
\* read without the lock
SentBuild(j) ==
    Build(j, "sent_build",
          [status |-> "sent", detail |-> "none", wait_time |-> NoneVal,
           timestamp |-> now, current_count |-> Len(sms_timestamps)])

\* with self.lock: self.stats['total_errors'] += 1   (lines 199-200 / 214-215)
ErrStat(j) ==
    /\ pc[j] = "err_stat"
    /\ lock = Unlocked
    /\ stats' = [stats EXCEPT !.total_errors = @ + 1]
    /\ pc' = [pc EXCEPT ![j] = "err_build"]
    /\ UNCHANGED <<now, config, returned, api_vars, bulk_vars, obs_vars, sms_timestamps, sms_status,
                   arg, loc, result, calls, appended>>

\* Mutant of ErrBuild: the error result carries a fixed detail instead of
\* the one of the failure.
ErrBuildFixedDetail(j) ==
    Build(j, "err_build",
          [status |-> "error", detail |-> "fail", wait_time |-> NoneVal,
           timestamp |-> now, current_count |-> NoneVal])

\* lines 202-207 / 217-222
ErrBuild(j) ==
    Build(j, "err_build",
          [status |-> "error", detail |-> loc[j].err, wait_time |-> NoneVal,
           timestamp |-> now, current_count |-> NoneVal])

(***************************************************************************)
(* The status store's other operations.                                    *)
(***************************************************************************)
NotFound == [NoResult EXCEPT !.status = "not_found"]

\* get_sms_status: self.sms_status.get(sms_id) under the lock
get_sms_status(sms_id) ==
    IF sms_id \in DOMAIN sms_status THEN sms_status[sms_id] ELSE NotFound

\* Mutant of clear_old_status: an entry whose timestamp does not parse is kept.
ClearOldStatusKeepsUnparsed(max_age_hours) ==
    /\ DOMAIN sms_status # {}
    /\ lock = Unlocked
    /\ LET cutoff_time == now - max_age_hours * SecondsPerHour
           old_ids == {i \in DOMAIN sms_status :
                          /\ sms_status[i].timestamp # NoneVal
                          /\ sms_status[i].timestamp < cutoff_time}
       IN sms_status' = [i \in (DOMAIN sms_status) \ old_ids |-> sms_status[i]]
    /\ UNCHANGED <<now, config, returned, api_vars, bulk_vars, obs_vars, sms_timestamps, stats,
                   pc, arg, loc, result, calls, appended>>

\* clear_old_status(max_age_hours): under the lock, delete every entry whose
\* timestamp is before now - max_age_hours hours, and every entry whose
\* timestamp is missing or does not parse (the bare except, lines 311-313).
\* What send_single_sms stores was written by datetime.now().isoformat(),
\* which datetime.fromisoformat parses; NoneVal stands for any other value.
clear_old_status(max_age_hours) ==
    /\ DOMAIN sms_status # {}
    /\ lock = Unlocked
    /\ LET cutoff_time == now - max_age_hours * SecondsPerHour
           old_ids == {i \in DOMAIN sms_status :
                          \/ sms_status[i].timestamp = NoneVal
                          \/ sms_status[i].timestamp < cutoff_time}
       IN sms_status' = [i \in (DOMAIN sms_status) \ old_ids |-> sms_status[i]]
    /\ UNCHANGED <<now, config, returned, api_vars, bulk_vars, obs_vars, sms_timestamps, stats,
                   pc, arg, loc, result, calls, appended>>

\* Time passes.
Tick ==
    /\ now < MaxTime
    /\ now' = now + 1
    /\ UNCHANGED <<config, returned, api_vars, bulk_vars, obs_vars, sms_timestamps, sms_status, stats,
                   pc, arg, loc, result, calls, appended>>

JobStep(j) ==
    \/ CheckRateLimit(j)
    \/ NoWaitStat(j)
    \/ NoWaitBuild(j)
    \/ WaitStart(j)
    \/ WaitCheck(j)
    \/ WaitDecide(j)
    \/ WakeUp(j)
    \/ MaxWaitStat(j)
    \/ MaxWaitBuild(j)
    \/ AddTimestamp(j)
    \/ SentStat(j)
    \/ SentBuild(j)
    \/ ErrStat(j)
    \/ ErrBuild(j)
    \/ StoreStatus(j)

Next ==
    \/ \E j \in Jobs, has_id \in BOOLEAN, respect \in BOOLEAN, max_wait \in WaitChoices :
           Call(j, has_id, respect, max_wait)
    \/ \E j \in Jobs : JobStep(j)
    \/ \E j \in Jobs, res \in TransportResults : Transport(j, res)
    \/ \E max_age_hours \in 0..MaxAge : clear_old_status(max_age_hours)
    \/ Tick

Spec == Init /\ [][Next]_vars

(***************************************************************************)
(* SpecA: the scripted scenario.  One caller makes ScenarioCalls calls of  *)
(* send_single_sms(number, message, max_wait_time = m) one after the       *)
(* other on SMSSender(rate_limit = 2, rate_window = 60); the transport     *)
(* succeeds at once, so the clock moves only while the caller waits.       *)
(***************************************************************************)
ScenarioCall(max_wait) ==
    /\ Len(returned) < ScenarioCalls
    /\ Call(1, FALSE, TRUE, max_wait)

\* The call has returned: the caller logs the result and is free to call again.
NextCall ==
    /\ pc[1] = "done"
    /\ returned' = Append(returned, [result |-> result[1],
                                     max_wait_time |-> arg[1].max_wait_time])
    /\ pc' = [pc EXCEPT ![1] = "idle"]
    /\ arg' = [arg EXCEPT ![1] = NoArg]
    /\ result' = [result EXCEPT ![1] = NoResult]
    /\ UNCHANGED <<now, config, api_vars, bulk_vars, obs_vars, sms_timestamps, sms_status, stats,
                   loc, calls, appended>>

\* time.sleep(s) returns after s seconds, or up to one second later.
TickA ==
    /\ pc[1] = "sleeping"
    /\ now <= loc[1].wake
    /\ now < ScenarioHorizon
    /\ now' = now + 1
    /\ UNCHANGED <<config, returned, api_vars, bulk_vars, obs_vars, sms_timestamps, sms_status, stats,
                   pc, arg, loc, result, calls, appended>>

InitA == EngineInit(2, 60) /\ ApiInit /\ BulkInit /\ ObsInit

NextA ==
    \/ \E max_wait \in WaitChoices : ScenarioCall(max_wait)
    \/ CheckRateLimit(1)
    \/ NoWaitStat(1)
    \/ NoWaitBuild(1)
    \/ WaitStart(1)
    \/ WaitCheck(1)
    \/ WaitDecide(1)
    \/ WakeUp(1)
    \/ MaxWaitStat(1)
    \/ MaxWaitBuild(1)
    \/ Transport(1, "ok")
    \/ AddTimestamp(1)
    \/ SentStat(1)
    \/ SentBuild(1)
    \/ NextCall
    \/ TickA

SpecA == InitA /\ [][NextA]_vars

(***************************************************************************)
(* smsApi.py: the handlers of /send-sms and /sms-status, the module-level  *)
(* thread_pool and sms_status, and its own SMSSender.send_single_sms       *)
(* (lines 30-84), which has no rate limiter.  Flask runs every request on  *)
(* a thread of its own (threaded=True).  An asynchronous request's sms_id  *)
(* is a fresh uuid4; the model uses the request's number.                  *)
(***************************************************************************)
Numbers == {"", "5511999999999"}
Messages == {"", "hello"}

\* Mutant of Busy: a worker is not given back when its work item ends.
BusyNeverReleased ==
    {r \in Reqs : req[r].async /\ jst[r] \in {"running", "built", "finished"}}

\* The pool's workers that are inside a work item.
Busy == {r \in Reqs : req[r].async /\ jst[r] \in {"running", "built"}}

\* send_sms, lines 92-103 and 111-113: validation, then either
\* thread_pool.submit(...) or the direct call on the handler's thread.
SendSms(r, to, message, async) ==
    /\ hpc[r] = "idle"
    /\ req' = [req EXCEPT ![r] = [to |-> to, message |-> message, async |-> async]]
    /\ IF to = "" \/ message = ""
       THEN /\ resp' = [resp EXCEPT ![r] = [code |-> 400, status |-> "validation_error"]]
            /\ hpc' = [hpc EXCEPT ![r] = "responded"]
            /\ UNCHANGED <<pool_queue, jst>>
       ELSE IF async
       THEN /\ pool_queue' = Append(pool_queue, r)
            /\ jst' = [jst EXCEPT ![r] = "queued"]
            /\ hpc' = [hpc EXCEPT ![r] = "submitted"]
            /\ UNCHANGED resp
       ELSE /\ jst' = [jst EXCEPT ![r] = "running"]
            /\ hpc' = [hpc EXCEPT ![r] = "sync_call"]
            /\ UNCHANGED <<pool_queue, resp>>
    /\ UNCHANGED <<engine_vars, bulk_vars, obs_vars, api_status, api_result>>

\* Mutant of AsyncReturn: the handler waits for the future before answering.
AsyncReturnAfterJob(r) ==
    /\ hpc[r] = "submitted"
    /\ jst[r] = "finished"
    /\ resp' = [resp EXCEPT ![r] = [code |-> 202, status |-> "queued"]]
    /\ hpc' = [hpc EXCEPT ![r] = "responded"]
    /\ UNCHANGED <<engine_vars, bulk_vars, obs_vars, api_status, pool_queue, req, jst, api_result>>

\* send_sms, lines 105-110: the 202 response carrying the sms_id
AsyncReturn(r) ==
    /\ hpc[r] = "submitted"
    /\ resp' = [resp EXCEPT ![r] = [code |-> 202, status |-> "queued"]]
    /\ hpc' = [hpc EXCEPT ![r] = "responded"]
    /\ UNCHANGED <<engine_vars, bulk_vars, obs_vars, api_status, pool_queue, req, jst, api_result>>

\* Mutant of WorkerTake: the pool runs a queued job on an extra worker.
WorkerTakeExtraWorker ==
    /\ pool_queue # <<>>
    /\ jst' = [jst EXCEPT ![Head(pool_queue)] = "running"]
    /\ pool_queue' = Tail(pool_queue)
    /\ UNCHANGED <<engine_vars, bulk_vars, obs_vars, api_status, req, hpc, resp, api_result>>

\* ThreadPoolExecutor(max_workers): a worker that is free (or not yet
\* started) takes the oldest work item.
WorkerTake ==
    /\ pool_queue # <<>>
    /\ Cardinality(Busy) < PoolSize
    /\ jst' = [jst EXCEPT ![Head(pool_queue)] = "running"]
    /\ pool_queue' = Tail(pool_queue)
    /\ UNCHANGED <<engine_vars, bulk_vars, obs_vars, api_status, req, hpc, resp, api_result>>

\* send_single_sms lines 32-53, 62-68, 74-80: the transport call ends and the
\* result dict is built.
ApiTransport(r, res) ==
    /\ jst[r] = "running"
    /\ api_result' = [api_result EXCEPT ![r] =
           [status |-> IF res = "ok" THEN "sent" ELSE "error",
            detail |-> IF res = "ok" THEN "none" ELSE res,
            wait_time |-> NoneVal, timestamp |-> now, current_count |-> NoneVal]]
    /\ jst' = [jst EXCEPT ![r] = "built"]
    /\ UNCHANGED <<engine_vars, bulk_vars, obs_vars, api_status, pool_queue, req, hpc, resp>>

\* Mutant of ApiStore: the result of a direct call is stored as well.
ApiStoreAnyCall(r) ==
    /\ jst[r] = "built"
    /\ api_status' = Put(api_status, r, api_result[r])
    /\ jst' = [jst EXCEPT ![r] = IF req[r].async THEN "finished" ELSE "built"]
    /\ UNCHANGED <<engine_vars, bulk_vars, obs_vars, pool_queue, req, hpc, resp, api_result>>

\* send_single_sms lines 55-60, 69-72, 81-84 with an sms_id:
\* with self.lock: sms_status[sms_id] = result; return
ApiStore(r) ==
    /\ jst[r] = "built"
    /\ req[r].async
    /\ api_status' = Put(api_status, r, api_result[r])
    /\ jst' = [jst EXCEPT ![r] = "finished"]
    /\ UNCHANGED <<engine_vars, bulk_vars, obs_vars, pool_queue, req, hpc, resp, api_result>>

\* send_sms lines 113-117: the direct call returns; 200 when sent, else 500
SyncReturn(r) ==
    /\ hpc[r] = "sync_call"
    /\ jst[r] = "built"
    /\ resp' = [resp EXCEPT ![r] =
                  [code |-> IF api_result[r].status = "sent" THEN 200 ELSE 500,
                   status |-> api_result[r].status]]
    /\ hpc' = [hpc EXCEPT ![r] = "responded"]
    /\ jst' = [jst EXCEPT ![r] = "finished"]
    /\ UNCHANGED <<engine_vars, bulk_vars, obs_vars, api_status, pool_queue, req, api_result>>

\* get_sms_status (the /sms-status handler), lines 221-230
api_get_sms_status(sms_id) ==
    IF sms_id \in DOMAIN api_status THEN api_status[sms_id] ELSE NotFound

\* SMSSender() of sms_sender.py is not used by smsApi.py; it sits at its defaults.
InitApi == EngineInit(500, 30) /\ ApiInit /\ BulkInit /\ ObsInit

NextApi ==
    \/ \E r \in Reqs, to \in Numbers, message \in Messages, async \in BOOLEAN :
           SendSms(r, to, message, async)
    \/ \E r \in Reqs : AsyncReturn(r)
    \/ WorkerTake
    \/ \E r \in Reqs, res \in TransportResults : ApiTransport(r, res)
    \/ \E r \in Reqs : ApiStore(r)
    \/ \E r \in Reqs : SyncReturn(r)

SpecApi == InitApi /\ [][NextApi]_vars

\* The pool's worker threads run whenever they can, and every transport call
\* ends (subprocess.run has timeout=30).
FairApi ==
    /\ WF_vars(WorkerTake)
    /\ \A r \in Reqs : WF_vars(\E res \in TransportResults : ApiTransport(r, res))
    /\ \A r \in Reqs : WF_vars(ApiStore(r))

FairSpecApi == SpecApi /\ FairApi


(***************************************************************************)
(* smsApi.py: the handler of /send-bulk-sms, lines 119-216.  A recipient   *)
(* is a JSON string, a JSON object, or anything else; recipient.get(key)   *)
(* of an absent key is None, which is falsy like the empty string, so both *)
(* are written "".                                                         *)
(***************************************************************************)
StrEntry(d) == [kind |-> "str", to |-> d, message |-> ""]
DictEntry(t, m) == [kind |-> "dict", to |-> t, message |-> m]
OtherEntry == [kind |-> "other", to |-> "", message |-> ""]

\* Every shape of recipient the normalization loop tells apart.
Entries ==
    {StrEntry(d) : d \in {"", "A"}}
        \cup {DictEntry(t, m) : t \in {"", "B"}, m \in {"", "hi"}}
        \cup {OtherEntry}

\* The recipients the requests of SpecBulk carry: one that is valid with a
\* default message, and two that never are.
BulkEntries == {StrEntry("A"), DictEntry("", "hi"), OtherEntry}

\* data.get("message"): absent, or a default message
Fallbacks == {"", "default"}

\* data.get("max_workers", 5)
RequestedWorkers == 0..MaxRequested

SeqsUpTo(S, n) == UNION {[1..k -> S] : k \in 0..n}

\* data.get("recipients", []): a list, null, or some other JSON value
RecipientsOver(S) ==
    {[type |-> "list", items |-> l] : l \in SeqsUpTo(S, MaxBatch)}
        \cup {[type |-> t, items |-> <<>>] : t \in {"none", "object"}}

NormError(e, i) == [error |-> e, index |-> i, processed |-> <<>>]

\* Mutant of NormalizeFrom: the default message, when there is one, replaces
\* an object's own message.
RECURSIVE NormalizePrefersDefault(_, _, _, _)
NormalizePrefersDefault(recipients, message, i, processed) ==
    IF i > Len(recipients)
    THEN [error |-> "none", index |-> 0, processed |-> processed]
    ELSE LET recipient == recipients[i] IN
         IF recipient.kind = "str"
         THEN IF message = ""
              THEN NormError("missing message", i)
              ELSE NormalizePrefersDefault(recipients, message, i + 1,
                       Append(processed, [to |-> recipient.to, message |-> message]))
         ELSE IF recipient.kind = "dict"
         THEN IF recipient.to = ""
              THEN NormError("missing destination", i)
              ELSE IF message = "" /\ recipient.message = ""
              THEN NormError("missing message", i)
              ELSE NormalizePrefersDefault(recipients, message, i + 1,
                       Append(processed,
                              [to |-> recipient.to,
                               message |-> IF message # "" THEN message
                                           ELSE recipient.message]))
         ELSE NormError("invalid entry type", i)

\* The loop of lines 136-172 from entry i on (the code counts from 0, the
\* model from 1), processed being the processed_recipients built so far.
RECURSIVE NormalizeFrom(_, _, _, _)
NormalizeFrom(recipients, message, i, processed) ==
    IF i > Len(recipients)
    THEN [error |-> "none", index |-> 0, processed |-> processed]
    ELSE LET recipient == recipients[i] IN
         IF recipient.kind = "str"
         THEN IF message = ""
              THEN NormError("missing message", i)
              ELSE NormalizeFrom(recipients, message, i + 1,
                       Append(processed, [to |-> recipient.to, message |-> message]))
         ELSE IF recipient.kind = "dict"
         THEN IF recipient.to = ""
              THEN NormError("missing destination", i)
              ELSE IF recipient.message = ""
              THEN IF message = ""
                   THEN NormError("missing message", i)
                   ELSE NormalizeFrom(recipients, message, i + 1,
                            Append(processed, [to |-> recipient.to, message |-> message]))
              ELSE NormalizeFrom(recipients, message, i + 1,
                       Append(processed,
                              [to |-> recipient.to, message |-> recipient.message]))
         ELSE NormError("invalid entry type", i)

\* Lines 127-175: what the handler does with recipients and message before it
\* creates the executor.
Validate(recipients, message) ==
    IF recipients.type = "none" \/ (recipients.type = "list" /\ recipients.items = <<>>)
    THEN NormError("recipients required", 0)
    ELSE IF recipients.type # "list"
    THEN NormError("not a list", 0)
    ELSE LET out == NormalizeFrom(recipients.items, message, 1, <<>>)
         IN IF out.error = "none" /\ out.processed = <<>>
            THEN NormError("no valid recipients", 0)
            ELSE out

\* max_workers = min(max_workers, 10)
EffectiveWorkers(max_workers) == Min(max_workers, BulkCap)

\* The request arrives: lines 122-125.
BulkReceive(b, recipients, message, max_workers) ==
    /\ bpc[b] = "idle"
    /\ breq' = [breq EXCEPT ![b] = [recipients |-> recipients, message |-> message,
                                    max_workers |-> max_workers]]
    /\ bpc' = [bpc EXCEPT ![b] = "received"]
    /\ UNCHANGED <<engine_vars, api_vars, obs_vars, processed_recipients, futures,
                   future_result, results, bresp>>

\* Mutant of BulkValidate: the entries before the first invalid one are
\* handed to the executor before the error is returned.
BulkValidateDispatchesPrefix(b) ==
    /\ bpc[b] = "received"
    /\ LET out == Validate(breq[b].recipients, breq[b].message)
           prefix == IF out.index > 1
                     THEN NormalizeFrom(SubSeq(breq[b].recipients.items, 1, out.index - 1),
                                        breq[b].message, 1, <<>>).processed
                     ELSE <<>>
       IN IF out.error # "none"
          THEN /\ bresp' = [bresp EXCEPT ![b] = [NoBulkResp EXCEPT !.code = 400,
                                                  !.error = out.error,
                                                  !.index = out.index]]
               /\ bpc' = [bpc EXCEPT ![b] = "responded"]
               /\ processed_recipients' = [processed_recipients EXCEPT ![b] = prefix]
               /\ futures' = [futures EXCEPT ![b] = [i \in 1..Len(prefix) |-> "queued"]]
               /\ future_result' = [future_result EXCEPT ![b] =
                                       [i \in 1..Len(prefix) |-> NoResult]]
          ELSE /\ processed_recipients' = [processed_recipients EXCEPT ![b] = out.processed]
               /\ futures' = [futures EXCEPT ![b] =
                                 [i \in 1..Len(out.processed) |-> "queued"]]
               /\ future_result' = [future_result EXCEPT ![b] =
                                       [i \in 1..Len(out.processed) |-> NoResult]]
               /\ bpc' = [bpc EXCEPT ![b] = "collecting"]
               /\ UNCHANGED bresp
    /\ UNCHANGED <<engine_vars, api_vars, obs_vars, breq, results>>

\* Lines 127-189: validation and normalization (a 400 at the first error),
\* the worker bound, ThreadPoolExecutor(max_workers) (which raises ValueError
\* for max_workers <= 0: Flask answers 500), and the submission of one
\* send_single_sms(to, message) per normalized recipient, in order.
BulkValidate(b) ==
    /\ bpc[b] = "received"
    /\ LET out == Validate(breq[b].recipients, breq[b].message)
           max_workers == EffectiveWorkers(breq[b].max_workers)
       IN IF out.error # "none"
          THEN /\ bresp' = [bresp EXCEPT ![b] = [NoBulkResp EXCEPT !.code = 400,
                                                  !.error = out.error,
                                                  !.index = out.index]]
               /\ bpc' = [bpc EXCEPT ![b] = "responded"]
               /\ UNCHANGED <<processed_recipients, futures, future_result>>
          ELSE IF max_workers <= 0
          THEN /\ processed_recipients' = [processed_recipients EXCEPT ![b] = out.processed]
               /\ bresp' = [bresp EXCEPT ![b] = [NoBulkResp EXCEPT !.code = 500,
                                                  !.error = "ValueError"]]
               /\ bpc' = [bpc EXCEPT ![b] = "responded"]
               /\ UNCHANGED <<futures, future_result>>
          ELSE /\ processed_recipients' = [processed_recipients EXCEPT ![b] = out.processed]
               /\ futures' = [futures EXCEPT ![b] =
                                 [i \in 1..Len(out.processed) |-> "queued"]]
               /\ future_result' = [future_result EXCEPT ![b] =
                                       [i \in 1..Len(out.processed) |-> NoResult]]
               /\ bpc' = [bpc EXCEPT ![b] = "collecting"]
               /\ UNCHANGED bresp
    /\ UNCHANGED <<engine_vars, api_vars, obs_vars, breq, results>>

\* The entries of call b whose future is in state s.
InState(b, s) == {i \in 1..Len(futures[b]) : futures[b][i] = s}

\* Mutant of BulkWorkerTake: the executor starts a thread for every work item.
BulkWorkerTakeUnbounded(b) ==
    /\ bpc[b] = "collecting"
    /\ InState(b, "queued") # {}
    /\ LET i == CHOOSE k \in InState(b, "queued") :
                    \A m \in InState(b, "queued") : k <= m
       IN futures' = [futures EXCEPT ![b][i] = "running"]
    /\ UNCHANGED <<engine_vars, api_vars, obs_vars, bpc, breq, processed_recipients,
                   future_result, results, bresp>>

\* The call's executor (line 184): a worker that is free, or not yet started
\* while fewer than max_workers are, takes the oldest work item.
BulkWorkerTake(b) ==
    /\ bpc[b] = "collecting"
    /\ InState(b, "queued") # {}
    /\ Cardinality(InState(b, "running")) < EffectiveWorkers(breq[b].max_workers)
    /\ LET i == CHOOSE k \in InState(b, "queued") :
                    \A m \in InState(b, "queued") : k <= m
       IN futures' = [futures EXCEPT ![b][i] = "running"]
    /\ UNCHANGED <<engine_vars, api_vars, obs_vars, bpc, breq, processed_recipients,
                   future_result, results, bresp>>

\* Mutant of BulkTransport: an entry that fails takes the entries still
\* queued down with it.
BulkTransportFailureCancels(b, i, res) ==
    /\ bpc[b] = "collecting"
    /\ i \in InState(b, "running")
    /\ futures' = [futures EXCEPT ![b] =
                     [k \in 1..Len(futures[b]) |->
                        IF k = i \/ (res # "ok" /\ futures[b][k] = "queued")
                        THEN "done" ELSE futures[b][k]]]
    /\ future_result' = [future_result EXCEPT ![b] =
                     [k \in 1..Len(futures[b]) |->
                        IF k = i
                        THEN [NoResult EXCEPT !.status = IF res = "ok" THEN "sent" ELSE "error",
                                              !.detail = IF res = "ok" THEN "none" ELSE res]
                        ELSE IF res # "ok" /\ futures[b][k] = "queued"
                        THEN [NoResult EXCEPT !.status = "error", !.detail = "cancelled"]
                        ELSE future_result[b][k]]]
    /\ UNCHANGED <<engine_vars, api_vars, obs_vars, bpc, breq, processed_recipients,
                   results, bresp>>

\* send_single_sms(to, message) without an sms_id on a worker of the call's
\* executor (lines 30-84): the transport call ends, the result dict is
\* returned and the future is done.  Nothing is written to sms_status.
BulkTransport(b, i, res) ==
    /\ bpc[b] = "collecting"
    /\ i \in InState(b, "running")
    /\ futures' = [futures EXCEPT ![b][i] = "done"]
    /\ future_result' = [future_result EXCEPT ![b][i] =
           [NoResult EXCEPT !.status = IF res = "ok" THEN "sent" ELSE "error",
                            !.detail = IF res = "ok" THEN "none" ELSE res]]
    /\ UNCHANGED <<engine_vars, api_vars, obs_vars, bpc, breq, processed_recipients,
                   results, bresp>>

\* Mutant of BulkCollect: a result that is not "sent" is dropped.
BulkCollectDropsErrors(b, i) ==
    /\ bpc[b] = "collecting"
    /\ i \in InState(b, "done")
    /\ futures' = [futures EXCEPT ![b][i] = "collected"]
    /\ results' = [results EXCEPT ![b] =
                     IF future_result[b][i].status = "sent" THEN Append(@, i) ELSE @]
    /\ UNCHANGED <<engine_vars, api_vars, obs_vars, bpc, breq, processed_recipients,
                   future_result, bresp>>

\* Lines 192-196: as_completed yields a future that is done and
\* results.append(future.result()).  send_single_sms catches every
\* Exception, so future.result() does not raise (lines 197-204 do not run).
\* results holds the entry of each collected future; BulkResults its dicts.
BulkCollect(b, i) ==
    /\ bpc[b] = "collecting"
    /\ i \in InState(b, "done")
    /\ futures' = [futures EXCEPT ![b][i] = "collected"]
    /\ results' = [results EXCEPT ![b] = Append(@, i)]
    /\ UNCHANGED <<engine_vars, api_vars, obs_vars, bpc, breq, processed_recipients,
                   future_result, bresp>>

\* The list the handler calls results.
BulkResults(b) == [k \in 1..Len(results[b]) |-> future_result[b][results[b][k]]]

\* Lines 205-216: as_completed is exhausted (every future was yielded), the
\* executor is shut down, and the aggregate is returned.
BulkReturn(b) ==
    /\ bpc[b] = "collecting"
    /\ \A i \in 1..Len(futures[b]) : futures[b][i] = "collected"
    /\ LET sent_count == Cardinality({k \in 1..Len(results[b]) :
                                         BulkResults(b)[k].status = "sent"})
           error_count == Len(results[b]) - sent_count
       IN bresp' = [bresp EXCEPT ![b] = [NoBulkResp EXCEPT
                       !.code = 200,
                       !.total = Len(processed_recipients[b]),
                       !.sent = sent_count,
                       !.errors = error_count]]
    /\ bpc' = [bpc EXCEPT ![b] = "responded"]
    /\ UNCHANGED <<engine_vars, api_vars, obs_vars, breq, processed_recipients, futures,
                   future_result, results>>

\* SpecBulk: the bulk requests.
NextBulk ==
    \/ \E b \in Bulks, recipients \in RecipientsOver(BulkEntries),
          message \in Fallbacks, max_workers \in RequestedWorkers :
           BulkReceive(b, recipients, message, max_workers)
    \/ \E b \in Bulks : BulkValidate(b)
    \/ \E b \in Bulks : BulkWorkerTake(b)
    \/ \E b \in Bulks, i \in 1..MaxBatch, res \in TransportResults : BulkTransport(b, i, res)
    \/ \E b \in Bulks, i \in 1..MaxBatch : BulkCollect(b, i)
    \/ \E b \in Bulks : BulkReturn(b)

SpecBulk == InitApi /\ [][NextBulk]_vars

\* SpecSurface: the bulk requests next to one /send-sms request.
SurfaceReqs == {1}

NextSurface ==
    \/ NextBulk
    \/ \E r \in SurfaceReqs, to \in Numbers, message \in Messages, async \in BOOLEAN :
           SendSms(r, to, message, async)
    \/ \E r \in SurfaceReqs : AsyncReturn(r)
    \/ WorkerTake
    \/ \E r \in SurfaceReqs, res \in TransportResults : ApiTransport(r, res)
    \/ \E r \in SurfaceReqs : ApiStore(r)
    \/ \E r \in SurfaceReqs : SyncReturn(r)

SpecSurface == InitApi /\ [][NextSurface]_vars

\* The workers of the bulk calls' executors keep running, every transport
\* call ends (timeout=30), and the handler keeps collecting.
FairBulk ==
    /\ \A b \in Bulks : WF_vars(BulkWorkerTake(b))
    /\ \A b \in Bulks, i \in 1..MaxBatch :
          WF_vars(\E res \in TransportResults : BulkTransport(b, i, res))
    /\ \A b \in Bulks, i \in 1..MaxBatch : WF_vars(BulkCollect(b, i))
    /\ \A b \in Bulks : WF_vars(BulkReturn(b))

FairSpecBulk == SpecBulk /\ FairBulk

\* SpecNorm: validation and normalization as a function of the request.  One
\* bulk request, with any recipients over Entries, has arrived.
InitNorm ==
    /\ EngineInit(500, 30)
    /\ ApiInit
    /\ \E recipients \in RecipientsOver(Entries), message \in Fallbacks,
          max_workers \in RequestedWorkers :
           breq = [b \in Bulks |->
                      IF b = 1
                      THEN [recipients |-> recipients, message |-> message,
                            max_workers |-> max_workers]
                      ELSE NoBulkReq]
    /\ bpc = [b \in Bulks |-> IF b = 1 THEN "received" ELSE "idle"]
    /\ processed_recipients = [b \in Bulks |-> <<>>]
    /\ futures = [b \in Bulks |-> <<>>]
    /\ future_result = [b \in Bulks |-> <<>>]
    /\ results = [b \in Bulks |-> <<>>]
    /\ bresp = [b \in Bulks |-> NoBulkResp]
    /\ ObsInit

NextNorm == \E b \in Bulks : BulkValidate(b)

SpecNorm == InitNorm /\ [][NextNorm]_vars

(***************************************************************************)
(* SpecPrune: clear_old_status as a function of the status store and the   *)
(* clock.  The sms_status dict is a public attribute, so the store is any  *)
(* dict of results, also results whose timestamp is missing or does not    *)
(* parse.                                                                  *)
(***************************************************************************)
PruneTimes == {0, 1, SecondsPerHour, SecondsPerHour + 1}

StoredResults ==
    {[NoResult EXCEPT !.status = s, !.timestamp = t] :
        s \in {"sent", "error"}, t \in PruneTimes \cup {NoneVal}}

\* SMSSender() at its defaults, no call in progress, at any of the times,
\* holding a result under every id.
InitPrune ==
    /\ now \in PruneTimes
    /\ rate_limit = 500
    /\ rate_window = 30
    /\ sms_timestamps = <<>>
    /\ sms_status \in [Jobs -> StoredResults]
    /\ stats = [total_sent |-> 0, total_errors |-> 0, rate_limited |-> 0]
    /\ pc = [j \in Jobs |-> "idle"]
    /\ arg = [j \in Jobs |-> NoArg]
    /\ loc = [j \in Jobs |-> NoLoc]
    /\ result = [j \in Jobs |-> NoResult]
    /\ calls = [j \in Jobs |-> 0]
    /\ appended = [j \in Jobs |-> 0]
    /\ returned = <<>>
    /\ ApiInit
    /\ BulkInit
    /\ ObsInit

NextPrune == \E max_age_hours \in 0..MaxAge : clear_old_status(max_age_hours)

SpecPrune == InitPrune /\ [][NextPrune]_vars

(***************************************************************************)
(* get_rate_limit_status and get_stats, lines 228-293, one action per step *)
(* between two accesses to shared state.  A thread o runs one of them:     *)
(* oview[o].op says which.  The thread's name is its number plus NumJobs,  *)
(* so that no request thread has it.                                       *)
(***************************************************************************)
Holder(o) == NumJobs + o

\* get_rate_limit_status() is called on its own (line 228).
GrlsCall(o) ==
    /\ opc[o] = "idle"
    /\ oview' = [oview EXCEPT ![o].op = "grls"]
    /\ opc' = [opc EXCEPT ![o] = "time"]
    /\ UNCHANGED <<engine_vars, api_vars, bulk_vars, lock>>

\* get_stats(), lines 272-291: the lock is taken and kept, the counters are
\* read, and line 292 calls get_rate_limit_status() inside the with block.
StatsEnter(o) ==
    /\ opc[o] = "idle"
    /\ lock = Unlocked
    /\ lock' = Holder(o)
    /\ oview' = [oview EXCEPT ![o].op = "stats",
                              ![o].total_requests =
                                  stats.total_sent + stats.total_errors + stats.rate_limited]
    /\ opc' = [opc EXCEPT ![o] = "time"]
    /\ UNCHANGED <<engine_vars, api_vars, bulk_vars>>

\* _check_rate_limit line 47: current_time = time.time()
ObsTime(o) ==
    /\ opc[o] = "time"
    /\ oview' = [oview EXCEPT ![o].current_time = now]
    /\ opc' = [opc EXCEPT ![o] = "check"]
    /\ UNCHANGED <<engine_vars, api_vars, bulk_vars, lock>>

\* _check_rate_limit lines 50-62, entered from line 235: "with self.lock" on
\* a threading.Lock, which its own holder cannot take a second time.
ObsCheck(o) ==
    LET ts == Evict(sms_timestamps, oview[o].current_time - rate_window)
        out == CheckOutcome(ts)
    IN /\ opc[o] = "check"
       /\ lock = Unlocked
       /\ sms_timestamps' = ts
       /\ CASE out = "admit" ->
                 /\ oview' = [oview EXCEPT ![o].can_send = TRUE, ![o].wait_time = 0]
                 /\ opc' = [opc EXCEPT ![o] = "count"]
            [] out = "refuse" ->
                 /\ oview' = [oview EXCEPT ![o].can_send = FALSE,
                                           ![o].wait_time = WaitTime(ts, oview[o].current_time)]
                 /\ opc' = [opc EXCEPT ![o] = "count"]
            [] out = "IndexError" ->
                 /\ oview' = [oview EXCEPT ![o] = [NoView EXCEPT !.op = oview[o].op]]
                 /\ opc' = [opc EXCEPT ![o] = "raised"]
       /\ UNCHANGED <<now, config, returned, api_vars, bulk_vars, lock, sms_status, stats,
                      pc, arg, loc, result, calls, appended>>

\* line 238 current_count = len(self.sms_timestamps), without the lock;
\* line 246 "remaining": max(0, self.rate_limit - current_count)
ObsCount(o) ==
    /\ opc[o] = "count"
    /\ oview' = [oview EXCEPT ![o].current_count = Len(sms_timestamps),
                              ![o].remaining = Max(0, rate_limit - Len(sms_timestamps))]
    /\ opc' = [opc EXCEPT ![o] = "truth"]
    /\ UNCHANGED <<engine_vars, api_vars, bulk_vars, lock>>

\* Leaving get_rate_limit_status, and with it the with block of get_stats
\* when that is the caller.
Released(o) == IF oview[o].op = "stats" THEN Unlocked ELSE lock

\* line 249: "... if self.sms_timestamps else None", without the lock
ObsTruth(o) ==
    /\ opc[o] = "truth"
    /\ IF sms_timestamps # <<>>
       THEN /\ opc' = [opc EXCEPT ![o] = "head"]
            /\ UNCHANGED <<oview, lock>>
       ELSE /\ oview' = [oview EXCEPT ![o].reset_time = NoneVal]
            /\ opc' = [opc EXCEPT ![o] = "done"]
            /\ lock' = Released(o)
    /\ UNCHANGED <<engine_vars, api_vars, bulk_vars>>

\* lines 247-248: self.sms_timestamps[0] + self.rate_window, without the
\* lock; an IndexError on an empty deque leaves the function.
ObsHead(o) ==
    /\ opc[o] = "head"
    /\ IF sms_timestamps # <<>>
       THEN /\ oview' = [oview EXCEPT ![o].reset_time = Head(sms_timestamps) + rate_window]
            /\ opc' = [opc EXCEPT ![o] = "done"]
       ELSE /\ oview' = [oview EXCEPT ![o] = [NoView EXCEPT !.op = oview[o].op]]
            /\ opc' = [opc EXCEPT ![o] = "raised"]
    /\ lock' = Released(o)
    /\ UNCHANGED <<engine_vars, api_vars, bulk_vars>>

ObsStep(o) ==
    \/ ObsTime(o)
    \/ ObsCheck(o)
    \/ ObsCount(o)
    \/ ObsTruth(o)
    \/ ObsHead(o)

(***************************************************************************)
(* SpecStats: SMSSender(rate_limit = 1, rate_window = 1) with request      *)
(* threads that call send_single_sms(number, message, sms_id,              *)
(* max_wait_time = 0) while other threads call get_rate_limit_status or    *)
(* get_stats.                                                              *)
(***************************************************************************)
InitStats == EngineInit(1, 1) /\ ApiInit /\ BulkInit /\ ObsInit

NextStats ==
    \/ \E j \in Jobs, has_id \in BOOLEAN : Call(j, has_id, TRUE, 0)
    \/ \E j \in Jobs : \/ CheckRateLimit(j)
                       \/ NoWaitStat(j)
                       \/ NoWaitBuild(j)
                       \/ AddTimestamp(j)
                       \/ SentStat(j)
                       \/ SentBuild(j)
                       \/ ErrStat(j)
                       \/ ErrBuild(j)
                       \/ StoreStatus(j)
    \/ \E j \in Jobs, res \in TransportResults : Transport(j, res)
    \/ \E max_age_hours \in 0..MaxAge : clear_old_status(max_age_hours)
    \/ \E o \in Observers : GrlsCall(o) \/ StatsEnter(o) \/ ObsStep(o)
    \/ Tick

SpecStats == InitStats /\ [][NextStats]_vars

(***************************************************************************)
(* SpecWait: request threads that each call send_single_sms(number,        *)
(* message, sms_id) with the default max_wait_time = None on a limiter     *)
(* with rate_limit >= 1 and rate_window >= 1.  The transport takes no      *)
(* time: the clock moves only while some thread is in time.sleep.          *)
(***************************************************************************)
\* A recorded send has left the window rate_window + 1 seconds later, and a
\* sleeping thread reads the clock at most one second after that; so each
\* call is admitted at most rate_window + 2 seconds after the send before
\* it, and the last of NumJobs calls by this time.
WaitHorizon == (NumJobs - 1) * (rate_window + 2)

\* Time passes for the threads that are in time.sleep (line 93).
TickWait ==
    /\ \E j \in Jobs : pc[j] = "sleeping" /\ now <= loc[j].wake
    /\ now < WaitHorizon
    /\ now' = now + 1
    /\ UNCHANGED <<config, returned, api_vars, bulk_vars, obs_vars, sms_timestamps, sms_status, stats,
                   pc, arg, loc, result, calls, appended>>

InitWait ==
    /\ \E limit \in 1..MaxLimit, window \in 1..MaxWindow : EngineInit(limit, window)
    /\ ApiInit
    /\ BulkInit
    /\ ObsInit

\* The steps of a call made with max_wait_time = None.
WaitJobStep(j) ==
    \/ CheckRateLimit(j)
    \/ WaitStart(j)
    \/ WaitCheck(j)
    \/ WaitDecide(j)
    \/ WakeUp(j)
    \/ AddTimestamp(j)
    \/ SentStat(j)
    \/ SentBuild(j)
    \/ ErrStat(j)
    \/ ErrBuild(j)
    \/ StoreStatus(j)

NextWait ==
    \/ \E j \in Jobs, has_id \in BOOLEAN : Call(j, has_id, TRUE, NoneVal)
    \/ \E j \in Jobs : WaitJobStep(j)
    \/ \E j \in Jobs, res \in TransportResults : Transport(j, res)
    \/ TickWait

SpecWait == InitWait /\ [][NextWait]_vars

\* Every thread that can take a step of its call takes one in the end, every
\* transport call ends, and time does not stop while a thread sleeps.
FairWait ==
    /\ \A j \in Jobs : WF_vars(WaitJobStep(j))
    /\ \A j \in Jobs : WF_vars(\E res \in TransportResults : Transport(j, res))
    /\ SF_vars(TickWait)

FairSpecWait == SpecWait /\ FairWait



(***************************************************************************)
(*                         The claims                                      *)
(***************************************************************************)
\* The recorded timestamps that lie within the trailing rate_window.
InWindow(ts, t) == {i \in 1..Len(ts) : ts[i] >= t - rate_window}

\* Thread j takes the step from pc value a to pc value b.
Steps(j, a, b) == pc[j] = a /\ pc'[j] = b

\* C1 (as claimed): on a positive rate_window, immediately after a job that
\* was admitted by _check_rate_limit records its send with _add_timestamp,
\* the number of recorded timestamps within the trailing rate_window is at
\* most rate_limit, also when the jobs run concurrently.
C1_WindowNeverExceedsLimit ==
    [][(rate_window > 0 /\ \E j \in Jobs : Steps(j, "add_ts", "sent_stat"))
         => Cardinality(InWindow(sms_timestamps', now')) <= rate_limit]_vars

\* C4 (as claimed): with rate_limit <= 0 (on a positive rate_window) no
\* admission check admits or fails, and every call that respects the rate
\* limit and has ended ended as rate_limited.
C4_NonPositiveLimitNeverAdmits ==
    (rate_limit <= 0 /\ rate_window > 0) =>
        \A j \in Jobs : arg[j].respect_rate_limit =>
            /\ pc[j] \notin {"send", "add_ts", "sent_stat", "sent_build", "raised"}
            /\ pc[j] = "done" => result[j].status = "rate_limited"

\* C5 (as claimed): an SMSSender whose rate_window is <= 0 (with a usable
\* rate_limit) is rejected at construction, so no thread ever gets into
\* send_single_sms on it.
C5_NonPositiveWindowRejected ==
    (rate_window <= 0 /\ rate_limit >= 1) => \A j \in Jobs : pc[j] = "idle"

\* C7 (as claimed): every call of send_single_sms, for every rate_limit (and
\* already for every positive rate_window), returns a result whose status is
\* sent, error or rate_limited; nothing is raised to the caller.
C7_AlwaysStructuredOutcome ==
    rate_window > 0 => \A j \in Jobs :
        /\ pc[j] # "raised"
        /\ pc[j] = "done" => result[j].status \in {"sent", "error", "rate_limited"}


\* The part of the window that has not expired at time t, in order.
Live(ts, t) == SelectSeq(ts, LAMBDA x : x >= t - rate_window)

\* Thread j's call went through a successful transport call.
SentPath(j) ==
    \/ pc[j] \in {"sent_stat", "sent_build"}
    \/ pc[j] \in {"store", "done"} /\ result[j].status = "sent"

\* C2: a timestamp is appended only by the _add_timestamp step of a call that
\* respects the rate limit and whose single transport call succeeded; every
\* other step of every call (refused, timed out, failed) leaves the unexpired
\* part of the window as it was; so each call has appended one timestamp
\* exactly when it respects the rate limit and is on its way to (or has
\* reached) the outcome sent, and none otherwise.
C2_AppendOnlyAfterSuccess ==
    /\ [](\A j \in Jobs :
            /\ appended[j] = (IF arg[j].respect_rate_limit /\ SentPath(j) THEN 1 ELSE 0)
            /\ appended[j] = 1 => calls[j] = 1)
    /\ [][/\ Len(sms_timestamps') > Len(sms_timestamps) =>
                \E j \in Jobs :
                    /\ Steps(j, "add_ts", "sent_stat")
                    /\ arg[j].respect_rate_limit
                    /\ calls[j] = 1 /\ loc[j].err = "none"
                    /\ sms_timestamps' = Append(sms_timestamps, now)
          /\ (now' = now /\ ~ \E j \in Jobs : Steps(j, "add_ts", "sent_stat")) =>
                Live(sms_timestamps', now) = Live(sms_timestamps, now)]_vars

\* Two calls that respected the rate limit have returned, one sent and one an
\* error or rate_limited; only the first appended.
C2_Witness ==
    \E j, k \in Jobs :
        /\ pc[j] = "done" /\ pc[k] = "done"
        /\ arg[j].respect_rate_limit /\ arg[k].respect_rate_limit
        /\ result[j].status = "sent" /\ result[k].status \in {"error", "rate_limited"}
        /\ appended[j] = 1 /\ appended[k] = 0
        /\ Len(sms_timestamps) = 1


\* The first three calls of the scripted caller are sent, sent, and
\* rate_limited with a positive wait_time.
ScenarioOutcome ==
    /\ returned[1].result.status = "sent"
    /\ returned[2].result.status = "sent"
    /\ returned[3].result.status = "rate_limited"
    /\ returned[3].result.wait_time > 0

\* C3 (as claimed): with rate_limit = 2, rate_window = 60 and a transport
\* that succeeds at once, three sequential calls send_single_sms(number,
\* message), max_wait_time left at its default None, end sent, sent,
\* rate_limited with a positive wait.
C3_ScenarioDefaultCall ==
    (Len(returned) >= 3 /\ \A i \in 1..3 : returned[i].max_wait_time = NoneVal)
        => ScenarioOutcome

\* C3 (amended): the same, when the third call passes max_wait_time = 0.
C3_ScenarioNoWait ==
    (Len(returned) >= 3 /\ returned[3].max_wait_time = 0) => ScenarioOutcome

\* The third call, made with max_wait_time = 0, has returned.
C3_Witness ==
    /\ Len(returned) = 3
    /\ returned[3].max_wait_time = 0
    /\ returned[3].result.status = "rate_limited"
    /\ stats.total_sent = 2 /\ stats.rate_limited = 1


\* Thread j takes a step out of pc value a.
Leaves(j, a) == pc[j] = a /\ pc'[j] # a

\* C6: a call with max_wait_time = 0 whose admission check refuses goes
\* straight to the no-wait return: its next step adds one to rate_limited and
\* changes no other counter, the one after builds the rate_limited result
\* carrying the wait_time of the check, and no step of it sleeps, calls the
\* transport, appends to the window or touches the counters again.
C6_NoWaitRefusal ==
    /\ [](\A j \in Jobs :
            /\ pc[j] \in {"nowait_stat", "nowait_build"} =>
                  /\ arg[j].max_wait_time = 0 /\ ~ loc[j].can_send
                  /\ calls[j] = 0 /\ appended[j] = 0
            /\ (pc[j] \in {"store", "done"} /\ arg[j].max_wait_time = 0
                  /\ result[j].status = "rate_limited") =>
                  /\ result[j].wait_time >= 0
                  /\ result[j].detail = "rate limit reached"
                  /\ calls[j] = 0 /\ appended[j] = 0)
    /\ [][\A j \in Jobs :
            /\ (Leaves(j, "check") /\ arg[j].max_wait_time = 0 /\ ~ loc'[j].can_send
                  /\ pc'[j] # "raised") => pc'[j] = "nowait_stat"
            /\ Leaves(j, "nowait_stat") =>
                  /\ pc'[j] = "nowait_build"
                  /\ stats' = [stats EXCEPT !.rate_limited = @ + 1]
                  /\ UNCHANGED <<now, sms_timestamps, sms_status, calls, appended>>
            /\ Leaves(j, "nowait_build") =>
                  /\ pc'[j] \in {"store", "done"}
                  /\ result'[j].status = "rate_limited"
                  /\ result'[j].wait_time = loc[j].wait_time
                  /\ UNCHANGED <<now, stats, sms_timestamps, sms_status, calls, appended>>
            /\ (Leaves(j, "store") /\ result[j].status = "rate_limited") =>
                  /\ pc'[j] = "done"
                  /\ UNCHANGED <<now, stats, sms_timestamps, calls, appended>>]_vars

\* A no-wait call was refused and has returned rate_limited with a positive
\* wait, while the only counter that moved for it is rate_limited.
C6_Witness ==
    \E j \in Jobs :
        /\ pc[j] = "done"
        /\ arg[j].max_wait_time = 0
        /\ result[j].status = "rate_limited"
        /\ result[j].wait_time > 0
        /\ stats = [total_sent |-> 1, total_errors |-> 0, rate_limited |-> 1]


\* C8: an sms_id enters the status store only by the last step of the call
\* that carries it, with the outcome that call returns, and that call never
\* runs a second time; a stored outcome is never changed by any step, and it
\* leaves the store only by clear_old_status; so get_sms_status(id), once it
\* has returned an outcome, returns the same outcome until a prune removes it.
C8_StoredOnceImmutable ==
    /\ [](\A i \in DOMAIN sms_status :
            /\ pc[i] = "done" /\ arg[i].sms_id = i
            /\ sms_status[i] = result[i]
            /\ sms_status[i].status \in {"sent", "error", "rate_limited"})
    /\ [][\A i \in Jobs :
            /\ (i \notin DOMAIN sms_status /\ i \in DOMAIN sms_status') =>
                  /\ Steps(i, "store", "done")
                  /\ sms_status'[i] = result[i]
            /\ pc[i] = "done" => pc'[i] = "done"
            /\ (i \in DOMAIN sms_status /\ i \in DOMAIN sms_status') =>
                  /\ sms_status'[i] = sms_status[i]
                  /\ get_sms_status(i)' = get_sms_status(i)
            /\ (i \in DOMAIN sms_status /\ i \notin DOMAIN sms_status') =>
                  /\ UNCHANGED <<pc, result, stats, sms_timestamps>>
                  /\ sms_status[i].timestamp < now
                  /\ get_sms_status(i)' = NotFound]_vars

\* One outcome is in the store and is what get_sms_status returns; another
\* call's outcome was stored and has been pruned.
C8_Witness ==
    \E i, k \in Jobs :
        /\ i \in DOMAIN sms_status
        /\ get_sms_status(i) = result[i]
        /\ pc[k] = "done" /\ arg[k].sms_id = k
        /\ k \notin DOMAIN sms_status
        /\ get_sms_status(k) = NotFound


\* C9: the handler of an asynchronous /send-sms request can answer 202 with
\* the sms_id in whatever state its job is (queued, running or finished);
\* /sms-status/<sms_id> answers not_found in every state before the job's
\* status write and the job's terminal outcome (sent or error) in every state
\* after it.
C9_AsyncIdThenStatus ==
    \A r \in Reqs :
        /\ hpc[r] = "submitted" => ENABLED AsyncReturn(r)
        /\ resp[r].code = 202 =>
              req[r].async /\ jst[r] \in {"queued", "running", "built", "finished"}
        /\ (req[r].async /\ jst[r] # "finished") =>
              api_get_sms_status(r) = NotFound
        /\ (req[r].async /\ jst[r] = "finished") =>
              /\ api_get_sms_status(r) = api_result[r]
              /\ api_get_sms_status(r).status \in {"sent", "error"}

\* One request was answered 202 while its job has not run its transport call
\* and looks up as not_found; another's job has ended and looks up as sent.
C9_Witness ==
    \E r, q \in Reqs :
        /\ resp[r].code = 202 /\ jst[r] \in {"queued", "running"}
        /\ api_get_sms_status(r) = NotFound
        /\ req[q].async /\ jst[q] = "finished"
        /\ api_get_sms_status(q).status = "sent"


\* C10: under FairSpecApi (pool workers keep running, every transport call
\* ends), every job submitted to thread_pool, however many are submitted and
\* also when they outnumber the workers, eventually has its terminal outcome
\* (sent or error) in the status dict under its sms_id.
C10_AsyncJobsResolve ==
    \A r \in Reqs :
        (jst[r] = "queued") ~>
            (r \in DOMAIN api_status /\ api_status[r].status \in {"sent", "error"})

\* More asynchronous jobs than workers were submitted and each has its
\* outcome in the status dict.
C10_Witness ==
    /\ NumReqs > PoolSize
    /\ \A r \in Reqs :
          /\ req[r].async /\ jst[r] = "finished"
          /\ r \in DOMAIN api_status
          /\ api_status[r].status \in {"sent", "error"}

\* C11: at most PoolSize jobs submitted to thread_pool are executing at any
\* moment; a valid asynchronous request always puts its job at the tail of
\* the pool's queue (it is not answered with a refusal and does not start
\* running by being submitted), also when every worker is busy; and a queued
\* job starts only as the head of the queue, when fewer than PoolSize jobs
\* are executing, so jobs start in the order of their submission.
C11_PoolBoundFifo ==
    /\ [](/\ Cardinality(Busy) <= PoolSize
          /\ \A r \in Reqs : jst[r] = "queued" <=> \E k \in 1..Len(pool_queue) : pool_queue[k] = r
          /\ \A k, m \in 1..Len(pool_queue) : pool_queue[k] = pool_queue[m] => k = m)
    /\ [][\A r \in Reqs :
            /\ (hpc[r] = "idle" /\ hpc'[r] # "idle" /\ req'[r].async
                  /\ req'[r].to # "" /\ req'[r].message # "") =>
                  /\ jst'[r] = "queued"
                  /\ pool_queue' = Append(pool_queue, r)
                  /\ resp'[r] = NoResp
            /\ (jst[r] = "queued" /\ jst'[r] # "queued") =>
                  /\ jst'[r] = "running"
                  /\ r = Head(pool_queue)
                  /\ pool_queue' = Tail(pool_queue)
                  /\ Cardinality(Busy) < PoolSize]_vars

\* Every worker of the pool is busy and a job submitted after theirs waits
\* in the queue.
C11_Witness ==
    /\ Cardinality(Busy) = PoolSize
    /\ Len(pool_queue) >= 1
    /\ \A k \in 1..Len(pool_queue) : req[pool_queue[k]].async /\ hpc[pool_queue[k]] # "idle"


\* The requests whose send_single_sms call is inside the transport call.
InFlight == {r \in Reqs : jst[r] = "running"}

\* C12 (as claimed): the transport calls in flight, over the asynchronous
\* and the synchronous /send-sms requests together, never exceed the size of
\* the worker pool, however many requests there are.
C12_TransportCeiling == Cardinality(InFlight) <= PoolSize


\* The calls of the rate limiter (SMSSender of sms_sender.py) that an
\* admission check has admitted to the transport.
LimiterAdmitted ==
    {j \in Jobs : arg[j].respect_rate_limit /\ (pc[j] = "send" \/ calls[j] > 0)}

\* C13 (as claimed): a request of /send-sms whose job is in or past its
\* transport call was admitted by an admission check of the rate limiter.
C13_TransportBehindLimiter ==
    \A r \in Reqs :
        jst[r] \in {"running", "built", "finished"} => LimiterAdmitted # {}


\* What is wrong with recipient e under the default message fb: nothing, or
\* the error of the first test it fails.
EntryViolation(e, fb) ==
    IF e.kind = "str" THEN (IF fb = "" THEN "missing message" ELSE "none")
    ELSE IF e.kind = "dict"
    THEN (IF e.to = "" THEN "missing destination"
          ELSE IF e.message = "" /\ fb = "" THEN "missing message"
          ELSE "none")
    ELSE "invalid entry type"

\* The positions of the recipients list that cannot be normalized.
Violating(items, fb) == {i \in 1..Len(items) : EntryViolation(items[i], fb) # "none"}

\* A bulk request that fails validation: recipients absent, empty or not a
\* list, or a recipient that cannot be normalized.
BulkInvalid(rq) ==
    \/ rq.recipients.type # "list"
    \/ rq.recipients.items = <<>>
    \/ Violating(rq.recipients.items, rq.message) # {}

\* A /send-sms request that fails validation.
SingleInvalid(rq) == rq.to = "" \/ rq.message = ""

\* C14: a /send-sms request without destination or body is answered 400 by
\* the step that receives it, which submits nothing to thread_pool, starts no
\* send_single_sms call and leaves the status dict alone; a /send-bulk-sms
\* request whose recipients are absent, empty, not a list, or hold a
\* recipient that cannot be normalized is answered with one 400 by its
\* validation step, which creates no future, records no normalized
\* recipient (also when recipients before the invalid one are valid) and
\* changes neither thread_pool's queue, nor any job, nor the status dict;
\* and nothing is dispatched for such a request afterwards.
C14_InvalidRequestNoDispatch ==
    /\ [](/\ \A r \in Reqs : (hpc[r] # "idle" /\ SingleInvalid(req[r])) =>
                /\ resp[r].code = 400 /\ hpc[r] = "responded"
                /\ jst[r] = "none" /\ api_result[r] = NoResult
                /\ r \notin DOMAIN api_status
                /\ \A k \in 1..Len(pool_queue) : pool_queue[k] # r
          /\ \A b \in Bulks : (bpc[b] \notin {"idle", "received"} /\ BulkInvalid(breq[b])) =>
                /\ bresp[b].code = 400 /\ bresp[b].error # "none"
                /\ bpc[b] = "responded"
                /\ processed_recipients[b] = <<>> /\ futures[b] = <<>>
                /\ future_result[b] = <<>> /\ results[b] = <<>>)
    /\ [][/\ \A r \in Reqs : (hpc[r] = "idle" /\ hpc'[r] # "idle" /\ SingleInvalid(req'[r])) =>
                UNCHANGED <<api_status, pool_queue, jst, api_result, bulk_vars>>
          /\ \A b \in Bulks : (bpc[b] = "received" /\ bpc'[b] # "received"
                                 /\ BulkInvalid(breq[b])) =>
                UNCHANGED <<api_status, pool_queue, jst, api_result, futures,
                            future_result, results, processed_recipients>>]_vars

\* A bulk request whose second recipient is the first invalid one, after a
\* valid first, was answered 400 with nothing dispatched, and a /send-sms
\* request without a body was answered 400 as well.
C14_Witness ==
    /\ \E b \in Bulks :
          /\ bresp[b].code = 400 /\ bresp[b].index = 2
          /\ EntryViolation(breq[b].recipients.items[1], breq[b].message) = "none"
          /\ futures[b] = <<>>
    /\ \E r \in Reqs :
          /\ resp[r].code = 400 /\ req[r].to # "" /\ req[r].message = ""
          /\ jst[r] = "none"


\* C15 (as claimed): every normalized recipient that is submitted to the
\* call's executor has a non-empty destination and a non-empty body.
C15_NormalizedNonEmpty ==
    \A b \in Bulks : bpc[b] = "collecting" =>
        \A i \in 1..Len(processed_recipients[b]) :
            /\ processed_recipients[b][i].to # ""
            /\ processed_recipients[b][i].message # ""


\* What recipient e is resolved to under the default message fb.
Resolved(e, fb) ==
    [to |-> e.to,
     message |-> IF e.kind = "dict" /\ e.message # "" THEN e.message ELSE fb]

\* The least element of a non-empty set of positions.
First(S) == CHOOSE i \in S : \A k \in S : i <= k

\* C16: for a non-empty list of recipients, once the validation step has
\* run: if no recipient is in violation, the normalized list has the input's
\* length and holds at each position the resolution of the recipient at that
\* position (a string d gives (d, default), an object with a message gives
\* (to, its message), an object without gives (to, default)); otherwise the
\* answer is a 400 carrying the first violating position and that
\* recipient's error (missing message, missing destination, invalid entry
\* type), and no normalized list.
C16_NormalizationByPosition ==
    \A b \in Bulks :
        (bpc[b] \notin {"idle", "received"} /\ breq[b].recipients.type = "list"
            /\ breq[b].recipients.items # <<>>) =>
        LET items == breq[b].recipients.items
            fb == breq[b].message
            bad == Violating(items, fb)
        IN IF bad = {}
           THEN /\ bresp[b].code # 400
                /\ Len(processed_recipients[b]) = Len(items)
                /\ \A i \in 1..Len(items) :
                      processed_recipients[b][i] = Resolved(items[i], fb)
           ELSE /\ bresp[b].code = 400
                /\ bresp[b].index = First(bad)
                /\ bresp[b].error = EntryViolation(items[First(bad)], fb)
                /\ bresp[b].error \in {"missing message", "missing destination",
                                       "invalid entry type"}
                /\ processed_recipients[b] = <<>>

\* ["A", {to: "B", message: "hi"}] with the default message "default" was
\* normalized to [(A, default), (B, hi)].
C16_Witness ==
    \E b \in Bulks :
        /\ breq[b].recipients.items = <<StrEntry("A"), DictEntry("B", "hi")>>
        /\ breq[b].message = "default"
        /\ processed_recipients[b] = <<[to |-> "A", message |-> "default"],
                                       [to |-> "B", message |-> "hi"]>>


\* C17: a bulk call that returned its aggregate (200) reports total = the
\* number of normalized recipients, a results list of exactly total
\* elements holding the result of every entry once, sent = the number of
\* those results whose status is sent, and errors with sent + errors = total.
C17_BulkAggregate ==
    \A b \in Bulks : bresp[b].code = 200 =>
        /\ bresp[b].total = Len(processed_recipients[b])
        /\ bresp[b].total >= 1
        /\ Len(BulkResults(b)) = bresp[b].total
        /\ \A i \in 1..bresp[b].total : \E k \in 1..Len(results[b]) : results[b][k] = i
        /\ bresp[b].sent = Cardinality({k \in 1..Len(BulkResults(b)) :
                                           BulkResults(b)[k].status = "sent"})
        /\ bresp[b].errors = Cardinality({k \in 1..Len(BulkResults(b)) :
                                             BulkResults(b)[k].status # "sent"})
        /\ bresp[b].sent + bresp[b].errors = bresp[b].total

\* A bulk call of MaxBatch entries that all failed has returned.
C17_Witness ==
    \E b \in Bulks :
        /\ bresp[b].code = 200
        /\ bresp[b].total = MaxBatch
        /\ bresp[b].sent = 0 /\ bresp[b].errors = MaxBatch


\* C18: in a bulk call the entries inside send_single_sms at the same time
\* never outnumber min(max_workers, BulkCap); an entry starts only while
\* fewer than that are running, and until then it stays queued.
C18_BulkWorkerBound ==
    /\ [](\A b \in Bulks :
             Cardinality(InState(b, "running")) <= Min(breq[b].max_workers, BulkCap))
    /\ [][\A b \in Bulks : \A i \in 1..Len(futures[b]) :
            /\ (futures[b] # <<>> /\ futures[b][i] = "queued" /\ futures'[b][i] # "queued") =>
                  /\ futures'[b][i] = "running"
                  /\ Cardinality(InState(b, "running")) < Min(breq[b].max_workers, BulkCap)
            /\ (futures[b] # <<>> /\ futures[b][i] # "queued") => futures'[b][i] # "queued"]_vars

\* A batch larger than the cap, with more workers requested than the cap:
\* BulkCap entries are running and another is waiting.
C18_Witness ==
    \E b \in Bulks :
        /\ breq[b].max_workers > BulkCap
        /\ Cardinality(InState(b, "running")) = BulkCap
        /\ InState(b, "queued") # {}


\* C19: in a bulk call, the step in which an entry's transport call ends
\* (sent, timeout or failure) changes the future and the result of that
\* entry alone; a result, once there, is never changed; an entry is done
\* only through its own transport call, with status sent or error; the call
\* answers 200 only when every entry has been collected; and a call whose
\* executor was created eventually answers, with every entry resolved.
C19_BulkEntriesIndependent ==
    /\ [](\A b \in Bulks :
            /\ \A i \in 1..Len(futures[b]) :
                  futures[b][i] \in {"done", "collected"} <=>
                      future_result[b][i].status \in {"sent", "error"}
            /\ bresp[b].code = 200 =>
                  \A i \in 1..Len(processed_recipients[b]) :
                      /\ futures[b][i] = "collected"
                      /\ future_result[b][i].status \in {"sent", "error"})
    /\ [][\A b \in Bulks : \A i \in 1..Len(futures[b]) :
            /\ (futures[b][i] \in {"queued", "running"} /\ futures'[b][i] = "done") =>
                  /\ futures[b][i] = "running"
                  /\ \A k \in 1..Len(futures[b]) : k # i =>
                        /\ futures'[b][k] = futures[b][k]
                        /\ future_result'[b][k] = future_result[b][k]
            /\ futures[b][i] \in {"done", "collected"} =>
                  /\ future_result'[b][i] = future_result[b][i]
                  /\ futures'[b][i] \in {"done", "collected"}]_vars
    /\ \A b \in Bulks :
          (bpc[b] = "collecting") ~>
              (/\ bresp[b].code = 200
               /\ \A i \in 1..Len(processed_recipients[b]) :
                     future_result[b][i].status \in {"sent", "error"})

\* A bulk call has returned in which the first entry failed and the entries
\* after it were sent.
C19_Witness ==
    \E b \in Bulks :
        /\ bresp[b].code = 200
        /\ Len(processed_recipients[b]) = MaxBatch
        /\ future_result[b][1].status = "error"
        /\ \A i \in 2..MaxBatch : future_result[b][i].status = "sent"


\* The stored entry i is to be pruned at age max_age_hours: its timestamp is
\* missing or unparseable, or older than now - max_age_hours hours.
Prunable(i, max_age_hours) ==
    \/ sms_status[i].timestamp = NoneVal
    \/ sms_status[i].timestamp + max_age_hours * SecondsPerHour < now

\* C20: every step of clear_old_status is, for the max_age_hours it was
\* called with, the removal of exactly the prunable entries: the remaining
\* ids are the prior ids minus the prunable ones, every retained entry has a
\* timestamp that parses and is not older than the cutoff, and is unchanged.
C20_PruneExactlyOld ==
    [][\E max_age_hours \in 0..MaxAge :
          /\ DOMAIN sms_status' =
                 {i \in DOMAIN sms_status : ~ Prunable(i, max_age_hours)}
          /\ \A i \in DOMAIN sms_status' :
                /\ sms_status'[i] = sms_status[i]
                /\ sms_status[i].timestamp # NoneVal
                /\ sms_status[i].timestamp >= now - max_age_hours * SecondsPerHour
          /\ \A i \in (DOMAIN sms_status) \ (DOMAIN sms_status') :
                \/ sms_status[i].timestamp = NoneVal
                \/ sms_status[i].timestamp < now - max_age_hours * SecondsPerHour
          /\ now' = now]_vars

\* One hour and one second in, a prune at max_age_hours = 1 has removed every
\* other entry and kept the one whose timestamp is exactly the cutoff.
C20_Witness ==
    /\ now = SecondsPerHour + 1
    /\ DOMAIN sms_status = {1}
    /\ sms_status[1].timestamp = 1

\* C21 (as claimed): the rate window, the status store and the counters have
\* each their own exclusive section, so a thread that is inside the section
\* of the counters (get_stats, between taking the lock and its nested call)
\* never keeps a request thread out of the rate window's section (the
\* admission check), the status store's (the write of a result) or a
\* counter update made for another call.
C21_SectionsIndependent ==
    \A o \in Observers, j \in Jobs :
        (lock = Holder(o) /\ opc[o] = "time") =>
            /\ pc[j] = "check" => ENABLED CheckRateLimit(j)
            /\ pc[j] = "store" => ENABLED StoreStatus(j)
            /\ pc[j] = "add_ts" => ENABLED AddTimestamp(j)

\* The steps of send_single_sms that follow the counter update and precede
\* the return.
AfterStat == {"nowait_build", "maxwait_build", "sent_build", "err_build", "store"}

\* C22 (as claimed): on a limiter with a limit of at least one send and a
\* positive window, for a call with an sms_id the counter update and the
\* write to the status store are one atomic step: in no state has the call's
\* counter been incremented while its result is not in the store, and in no
\* state is its result in the store while its counter is not incremented.
C22_StatAndStoreAtomic ==
    \A j \in Jobs :
        (rate_limit >= 1 /\ rate_window >= 1 /\ Truthy(arg[j].sms_id)) =>
            /\ pc[j] \in AfterStat => arg[j].sms_id \in DOMAIN sms_status
            /\ arg[j].sms_id \in DOMAIN sms_status => pc[j] \in AfterStat \cup {"done"}

\* C23 (as claimed): with a limit of at least one send and a positive
\* window, in every state the timestamps of the rate window are in
\* non-decreasing order and none of them is older than now - rate_window.
C23_WindowSortedAndFresh ==
    (rate_limit >= 1 /\ rate_window >= 1) =>
        /\ \A i \in 1..(Len(sms_timestamps) - 1) : sms_timestamps[i] <= sms_timestamps[i + 1]
        /\ \A i \in 1..Len(sms_timestamps) : sms_timestamps[i] >= now - rate_window

\* What _check_rate_limit, called at time t on the window ts, leaves in the
\* window and returns.
CheckAt(ts, t) ==
    LET kept == Evict(ts, t - rate_window)
        out == CheckOutcome(kept)
    IN [kept |-> kept, out |-> out,
        wait_time |-> IF out = "refuse" THEN WaitTime(kept, t) ELSE 0]

\* C25 (as claimed): with a limit of at least one send, a positive window
\* and a window that holds no more than the limit, a check that refuses now
\* with retry-after r has r = max(0, oldest + rate_window - now), and a check
\* made exactly r later on the window it left, nothing being sent in
\* between, admits.
C25_RetryAfterAdmits ==
    (rate_limit >= 1 /\ rate_window >= 1 /\ Len(sms_timestamps) <= rate_limit) =>
        LET first == CheckAt(sms_timestamps, now)
        IN first.out = "refuse" =>
               /\ first.wait_time = Max(0, Head(first.kept) + rate_window - now)
               /\ CheckAt(first.kept, now + first.wait_time).out = "admit"

\* The argument of the time.sleep a waiting call is in.
SleepLength(j) == Min(loc[j].wait_time, 1)

\* C26 (as claimed), the part on the polling interval: with a limit of at
\* least one send and a positive window, a call with a positive
\* max_wait_time that was refused and goes to sleep before its next check
\* sleeps for more than zero and at most one second.
C26_WaitLoopSleeps ==
    \A j \in Jobs :
        (rate_limit >= 1 /\ rate_window >= 1 /\ arg[j].max_wait_time > 0
            /\ pc[j] = "sleeping") =>
            /\ SleepLength(j) > 0
            /\ SleepLength(j) <= 1

\* The calls whose counter update for the given outcome has been made.
Counted(status) ==
    {j \in Jobs :
        \/ status = "sent" /\ pc[j] = "sent_build"
        \/ status = "error" /\ pc[j] = "err_build"
        \/ status = "rate_limited" /\ pc[j] \in {"nowait_build", "maxwait_build"}
        \/ pc[j] \in {"store", "done"} /\ result[j].status = status}

\* C24: in every interleaving each counter equals the number of calls that
\* have made their counter update for that outcome, so no update is lost,
\* every call that has returned a result is counted once under its own
\* outcome and the three counters add up to the number of completed calls
\* once no call is between its update and its return; and no step decreases
\* a counter or changes the counters other than by adding one to one of them.
C24_CountersExact ==
    /\ [](/\ stats.total_sent = Cardinality(Counted("sent"))
          /\ stats.total_errors = Cardinality(Counted("error"))
          /\ stats.rate_limited = Cardinality(Counted("rate_limited"))
          /\ ((\A j \in Jobs : pc[j] \notin AfterStat) =>
                 stats.total_sent + stats.total_errors + stats.rate_limited
                     = Cardinality({j \in Jobs : pc[j] = "done"})))
    /\ [][/\ stats'.total_sent >= stats.total_sent
          /\ stats'.total_errors >= stats.total_errors
          /\ stats'.rate_limited >= stats.rate_limited
          /\ (stats' # stats =>
                 stats'.total_sent + stats'.total_errors + stats'.rate_limited
                     = stats.total_sent + stats.total_errors + stats.rate_limited + 1)]_vars

\* Every thread has completed a call, one with status sent and another with
\* status error or rate_limited.
C24_Witness ==
    /\ \A j \in Jobs : pc[j] = "done"
    /\ \E j \in Jobs : result[j].status = "sent"
    /\ \E j \in Jobs : result[j].status \in {"error", "rate_limited"}
    /\ stats.total_sent + stats.total_errors + stats.rate_limited = NumJobs

\* C27: a call invokes the transport at most once; a call past the
\* transport has invoked it exactly once and goes on to "sent" exactly when
\* the invocation succeeded, otherwise to "error" with the detail of the
\* failure (timeout, or the failure itself); a call whose result is
\* rate_limited has not invoked it; a call that has left the transport step
\* never returns to it.
C27_TransportOnceDecides ==
    /\ [](\A j \in Jobs :
            /\ calls[j] <= 1
            /\ pc[j] \in {"add_ts", "sent_stat", "sent_build"} =>
                   calls[j] = 1 /\ loc[j].err = "none"
            /\ pc[j] \in {"err_stat", "err_build"} =>
                   calls[j] = 1 /\ loc[j].err \in {"timeout", "fail"}
            /\ (pc[j] \in {"store", "done"} /\ result[j].status \in {"sent", "error"}) =>
                   calls[j] = 1
            /\ result[j].status = "rate_limited" => calls[j] = 0)
    /\ [][\A j \in Jobs :
            /\ Leaves(j, "sent_build") =>
                   result'[j].status = "sent" /\ loc[j].err = "none"
            /\ Leaves(j, "err_build") =>
                   /\ result'[j].status = "error"
                   /\ result'[j].detail = loc[j].err
            /\ (pc[j] # "send" /\ pc[j] # "idle") => pc'[j] # "send" \/ calls[j] = 0]_vars

\* One call has returned sent after one invocation of the transport, another
\* has returned rate_limited without any.
C27_Witness ==
    /\ \E j \in Jobs : /\ pc[j] = "done"
                       /\ result[j].status = "sent"
                       /\ calls[j] = 1
    /\ \E j \in Jobs : /\ pc[j] = "done"
                       /\ result[j].status = "rate_limited"
                       /\ calls[j] = 0

\* C29 (as claimed): a call of get_stats always has a next step to take
\* until it has returned, so it never waits for the lock of its own engine,
\* its nested get_rate_limit_status / _check_rate_limit included.
C29_GetStatsProceeds ==
    \A o \in Observers :
        (oview[o].op = "stats" /\ opc[o] \notin {"idle", "done", "raised"}) =>
            ENABLED ObsStep(o)

\* C30 (as claimed): get_rate_limit_status, called while other threads send
\* and check, never raises, and the dict it returns has can_send true
\* exactly when current_count < rate_limit, remaining equal to
\* max(0, rate_limit - current_count), and a reset_time exactly when
\* current_count > 0.
C30_SnapshotConsistent ==
    \A o \in Observers :
        oview[o].op = "grls" =>
            /\ opc[o] # "raised"
            /\ opc[o] = "done" =>
                   /\ oview[o].can_send <=> (oview[o].current_count < rate_limit)
                   /\ oview[o].remaining = Max(0, rate_limit - oview[o].current_count)
                   /\ (oview[o].reset_time # NoneVal) <=> (oview[o].current_count > 0)

\* C28: the status store of the API only ever holds results of finished
\* asynchronous jobs; a step changes it only by adding, under the id of one
\* asynchronous job that was not stored yet, the result of that job; every
\* step of a direct (synchronous) call and every step of a bulk call, from
\* its reception to its answer and whatever the outcome of its entries,
\* leaves it unchanged.
C28_StoreOnlyByIdJobs ==
    /\ [](\A i \in DOMAIN api_status : req[i].async /\ jst[i] = "finished")
    /\ [][/\ api_status' # api_status =>
                \E r \in Reqs : /\ req[r].async
                                /\ r \notin DOMAIN api_status
                                /\ jst[r] = "built" /\ jst'[r] = "finished"
                                /\ api_status' = Put(api_status, r, api_result[r])
          /\ \A r \in Reqs :
                (~req'[r].async /\ <<hpc[r], jst[r], api_result[r], resp[r]>>
                                     # <<hpc'[r], jst'[r], api_result'[r], resp'[r]>>) =>
                    api_status' = api_status
          /\ bulk_vars' # bulk_vars => api_status' = api_status]_vars

\* A direct call has been answered with an error, a bulk call has been
\* answered after at least one entry was sent and one failed, and the status
\* store is as it was.
C28_Witness ==
    /\ \E r \in Reqs : /\ ~req[r].async
                       /\ hpc[r] = "responded"
                       /\ resp[r].code = 500
    /\ \E b \in Bulks : /\ bpc[b] = "responded"
                        /\ bresp[b].code = 200
                        /\ bresp[b].sent >= 1
                        /\ bresp[b].errors >= 1
    /\ DOMAIN api_status = {}

\* C31 (as claimed): a bulk call whose recipients pass normalization is
\* answered, whatever integer max_workers it asks for, with the aggregate:
\* code 200, total = the number of normalized recipients, and one result per
\* recipient.
C31_NormalizedBatchAggregates ==
    \A b \in Bulks :
        (bpc[b] = "responded"
            /\ Validate(breq[b].recipients, breq[b].message).error = "none") =>
            /\ bresp[b].code = 200
            /\ bresp[b].total = Len(processed_recipients[b])
            /\ Len(results[b]) = bresp[b].total
            /\ bresp[b].sent + bresp[b].errors = bresp[b].total

\* C32: with rate_limit >= 1 and rate_window >= 1, time advancing and
\* every transport call ending, every call made with max_wait_time = None
\* returns a result in the end, and the result is sent or error, never
\* rate_limited and never an exception: a call that waits in
\* wait_for_rate_limit is admitted in the end.  The clock of the model never
\* stops while a call still sleeps.
C32_UnboundedWaitTerminates ==
    /\ \A j \in Jobs : (pc[j] # "idle") ~> (pc[j] = "done")
    /\ [](\A j \in Jobs :
            /\ pc[j] # "raised"
            /\ result[j].status \in {"none", "sent", "error"}
            /\ (pc[j] = "sleeping" /\ now <= loc[j].wake) => now < WaitHorizon)

\* Every call has returned "sent" on a limiter that admits one send per
\* window, and time has passed, which it does only while a call sleeps: one
\* of them waited in wait_for_rate_limit and was admitted.
C32_Witness ==
    /\ rate_limit = 1
    /\ now >= rate_window + 1
    /\ \A j \in Jobs : pc[j] = "done" /\ result[j].status = "sent"
    /\ Len(sms_timestamps) = 1

=============================================================================
